---- MODULE Spec2Model ----
(***************************************************************************)
(* Model of backend/app.py: a Flask application that stores chat turns in  *)
(* a PostgreSQL table (through psycopg2) and answers with a canned reply   *)
(* chosen by keyword matching.                                             *)
(*                                                                         *)
(* A text is a sequence of chunks (strings).  Request texts are chunked    *)
(* character by character, so that lower(), strip() and the substring      *)
(* test `word in text` are computed on characters; each canned reply is a  *)
(* single chunk, since the program only stores and returns it.             *)
(***************************************************************************)
EXTENDS Integers, Sequences, FiniteSets, TLC

VARIABLES
    rows,       \* committed rows of table chat_messages
    seq,        \* last value handed out by the SERIAL sequence of column id
    clock,      \* the database clock (CURRENT_TIMESTAMP)
    pc,         \* pc[w]: where worker w is in the request it handles
    req,        \* req[w]: the request worker w handles (or handled last)
    g,          \* g[w]: flask.g of the request context: "db" if 'db' in g
    txn,        \* txn[w]: the transaction of w's connection
    open,       \* open[w]: connections opened by w's requests and not closed
    acquired,   \* acquired[w]: psycopg2.connect calls made by the request
    resp,       \* resp[w]: the response of the request
    exc,        \* exc[w]: the exception a storage call raised in the request
    exchanges,  \* exchanges[s]: chat exchanges of session s answered with 200
    nchat,      \* POST /api/chat requests received so far
    nread,      \* GET requests received so far
    text,       \* the Responder's input  (specification SpecResponder)
    reply       \* the Responder's output (specification SpecResponder)

vars == <<rows, seq, clock, pc, req, g, txn, open, acquired, resp, exc, exchanges,
          nchat, nread, text, reply>>

serverVars == <<rows, seq, clock, pc, req, g, txn, open, acquired, resp, exc, exchanges,
               nchat, nread>>

----------------------------------------------------------------------------
(* Bounds *)

MaxChats == 2

MaxReads == 1

MaxClock == 2

MaxParts == 3

Workers == {"w1", "w2"}

----------------------------------------------------------------------------
(* Texts: str.lower, str.strip, `word in text` *)

UpperCase == <<"A","B","C","D","E","F","G","H","I","J","K","L","M",
               "N","O","P","Q","R","S","T","U","V","W","X","Y","Z">>

LowerCase == <<"a","b","c","d","e","f","g","h","i","j","k","l","m",
               "n","o","p","q","r","s","t","u","v","w","x","y","z">>

Whitespace == {" ", "\t", "\n"}

LowerChar(c) ==
    IF \E i \in 1..Len(UpperCase) : UpperCase[i] = c
    THEN LowerCase[CHOOSE i \in 1..Len(UpperCase) : UpperCase[i] = c]
    ELSE c

lower(s) == [i \in 1..Len(s) |-> LowerChar(s[i])]

RECURSIVE lstrip(_)
lstrip(s) ==
    IF s # <<>> /\ Head(s) \in Whitespace THEN lstrip(Tail(s)) ELSE s

RECURSIVE rstrip(_)
rstrip(s) ==
    IF s # <<>> /\ s[Len(s)] \in Whitespace
    THEN rstrip(SubSeq(s, 1, Len(s) - 1))
    ELSE s

strip(s) == rstrip(lstrip(s))

\* Python's `word in text` for non-empty word
Contains(s, word) ==
    \E i \in 0..(Len(s) - Len(word)) : SubSeq(s, i + 1, i + Len(word)) = word

----------------------------------------------------------------------------
(* The trigger words of get_fallback_response *)

w_eye       == <<"e","y","e">>
w_guard     == <<"g","u","a","r","d">>
w_vision    == <<"v","i","s","i","o","n">>
w_cv        == <<"c","v">>
w_ai        == <<"a","i">>
w_framework == <<"f","r","a","m","e","w","o","r","k">>
w_telegram  == <<"t","e","l","e","g","r","a","m">>
w_bot       == <<"b","o","t">>
w_general   == <<"g","e","n","e","r","a","l">>
w_shop      == <<"s","h","o","p">>
w_food      == <<"f","o","o","d">>
w_scraper   == <<"s","c","r","a","p","e","r">>
w_scraping  == <<"s","c","r","a","p","i","n","g">>
w_texno     == <<"t","e","x","n","o">>
w_data      == <<"d","a","t","a">>
w_skills    == <<"s","k","i","l","l","s">>
w_tech      == <<"t","e","c","h">>

(* The canned replies *)

EyeGuardReply ==
    <<"EyeGuard AI is one of my standout projects. It uses OpenCV for real-time eye state detection to help prevent driver fatigue.">>

FrameworkReply ==
    <<"I've developed a core Telegram Bot Framework on GitHub that serves as a modular foundation for building scalable, command-driven automations.">>

BotsReply ==
    <<"I'm an expert in aiogram. My bots include a Multilingual Food Ordering bot, a Texnomart Shop bot, and a specialized Clash utility bot.">>

ScraperReply ==
    <<"The Texno Scraper project demonstrates high-performance web scraping using BeautifulSoup to extract tech product data efficiently.">>

SkillsReply ==
    <<"Technical Stack: Python, PostgreSQL, OpenCV (AI), aiogram (Bots), Next.js, and Backend Architecture.">>

DefaultReply ==
    <<"I'm ExoBot! I can tell you about EyeGuard AI, my Telegram Bot Framework, or my web scraping tools. What interests you?">>

\* mutant: the Skills rule is tried before the EyeGuard rule
get_fallback_response_skills_first(user_input) ==
    LET t == lower(user_input) IN
    IF Contains(t, w_skills) \/ Contains(t, w_tech)
    THEN SkillsReply
    ELSE IF \E word \in {w_eye, w_guard, w_vision, w_cv, w_ai} : Contains(t, word)
    THEN EyeGuardReply
    ELSE IF Contains(t, w_framework)
            \/ (Contains(t, w_telegram) /\ Contains(t, w_bot) /\ Contains(t, w_general))
    THEN FrameworkReply
    ELSE IF \E word \in {w_bot, w_telegram, w_shop, w_food} : Contains(t, word)
    THEN BotsReply
    ELSE IF \E word \in {w_scraper, w_scraping, w_texno, w_data} : Contains(t, word)
    THEN ScraperReply
    ELSE DefaultReply

get_fallback_response(user_input) ==
    LET t == lower(user_input) IN
    IF \E word \in {w_eye, w_guard, w_vision, w_cv, w_ai} : Contains(t, word)
    THEN EyeGuardReply
    ELSE IF Contains(t, w_framework)
            \/ (Contains(t, w_telegram) /\ Contains(t, w_bot) /\ Contains(t, w_general))
    THEN FrameworkReply
    ELSE IF \E word \in {w_bot, w_telegram, w_shop, w_food} : Contains(t, word)
    THEN BotsReply
    ELSE IF \E word \in {w_scraper, w_scraping, w_texno, w_data} : Contains(t, word)
    THEN ScraperReply
    ELSE IF Contains(t, w_skills) \/ Contains(t, w_tech)
    THEN SkillsReply
    ELSE DefaultReply

----------------------------------------------------------------------------
(* Requests *)

\* session ids asked for on /api/messages/<session_id>
PathSessions == {"s1", "anonymous", "s2"}

\* the sessions of the model: those of ChatBodies are among them
Sessions == PathSessions

\* the JSON objects of POST /api/chat: message and session_id are optional
ChatBodies ==
    { <<>>,
      [message |-> <<>>, session_id |-> "s1"],
      [message |-> <<" ", "\t">>],
      [message |-> <<" ", "A", "I", " ", "s", "k", "i", "l", "l", "s", "\n">>],
      [message |-> <<"h", "i">>, session_id |-> "s1"] }

\* dict.get(key, default)
Get(data, key, default) == IF key \in DOMAIN data THEN data[key] ELSE default

\* the locals of chat(), lines 97-98
\* mutant: the message is not stripped
user_message_unstripped(data) == Get(data, "message", <<>>)

user_message(data) == strip(Get(data, "message", <<>>))

\* mutant: the session_id of the body is ignored
session_id_ignored(data) == "anonymous"

session_id(data) == Get(data, "session_id", "anonymous")

----------------------------------------------------------------------------
(* Responses *)

NoResponse == [status |-> 0, kind |-> "none", body |-> <<>>]

\* jsonify(a dict), status
JsonObject(obj, status) == [status |-> status, kind |-> "object", body |-> obj]

\* jsonify(a list), status 200
JsonArray(arr) == [status |-> 200, kind |-> "array", body |-> arr]

\* Flask answers an exception no handler catches with its 500 HTML page
InternalServerError == [status |-> 500, kind |-> "html", body |-> <<>>]

NoTxn == [active |-> FALSE, ts |-> 0, pending |-> {}]

----------------------------------------------------------------------------
(* The server *)

InitServer ==
    /\ rows = {}
    /\ seq = 0
    /\ clock = 1
    /\ pc = [w \in Workers |-> "idle"]
    /\ req = [w \in Workers |-> [kind |-> "none"]]
    /\ g = [w \in Workers |-> "none"]
    /\ txn = [w \in Workers |-> NoTxn]
    /\ open = [w \in Workers |-> 0]
    /\ acquired = [w \in Workers |-> 0]
    /\ resp = [w \in Workers |-> NoResponse]
    /\ exc = [w \in Workers |-> "none"]
    /\ exchanges = [s \in Sessions |-> 0]
    /\ nchat = 0
    /\ nread = 0

Init ==
    /\ InitServer
    /\ text = <<>>
    /\ reply = <<>>

\* No worker is handing over a response.  A worker that has made its
\* response hands it over and forgets the request (forget, below); nothing
\* else reads what that step changes, so it is taken before any other step.
Quiet == \A v \in Workers : pc[v] # "done"

\* an idle worker takes the next request r, in a fresh request context
Receive(w, r) ==
    /\ Quiet
    /\ pc[w] = "idle"
    /\ IF r.kind = "chat"
       THEN nchat < MaxChats /\ nchat' = nchat + 1 /\ nread' = nread
       ELSE nread < MaxReads /\ nread' = nread + 1 /\ nchat' = nchat
    /\ req' = [req EXCEPT ![w] = r]

\* get_db(): connect unless the request context holds a connection
get_db(w) ==
    IF g[w] = "none"
    THEN /\ g' = [g EXCEPT ![w] = "db"]
         /\ open' = [open EXCEPT ![w] = @ + 1]
         /\ acquired' = [acquired EXCEPT ![w] = @ + 1]
         /\ txn' = [txn EXCEPT ![w] = NoTxn]
    ELSE UNCHANGED <<g, open, acquired, txn>>

\* mutant: the connection is dropped from g and not closed
close_db_leaks(w) ==
    /\ g' = [g EXCEPT ![w] = "none"]
    /\ UNCHANGED <<open, txn>>
    /\ pc' = [pc EXCEPT ![w] = "done"]

\* close_db(), the teardown of the request context: it runs when the request
\* ends, whether the handler returned or raised.  Closing a connection
\* discards its uncommitted transaction.
close_db(w) ==
    /\ g' = [g EXCEPT ![w] = "none"]
    /\ IF g[w] # "none"
       THEN /\ open' = [open EXCEPT ![w] = @ - 1]
            /\ txn' = [txn EXCEPT ![w] = NoTxn]
       ELSE UNCHANGED <<open, txn>>
    /\ pc' = [pc EXCEPT ![w] = "done"]

\* a storage call raises: the exception leaves the handler, Flask answers
\* 500 and tears the request context down; exc[w] names the call that raised
Raise(w, call) ==
    /\ exc' = [exc EXCEPT ![w] = call]
    /\ resp' = [resp EXCEPT ![w] = InternalServerError]
    /\ close_db(w)

\* health_check(), lines 89-91
health_check(w) ==
    /\ Receive(w, [kind |-> "health"])
    /\ resp' = [resp EXCEPT ![w] =
                    JsonObject([status |-> "online", database |-> "postgresql"], 200)]
    /\ UNCHANGED <<exc, acquired>>
    /\ close_db(w)
    /\ UNCHANGED <<rows, seq, clock, exchanges, text, reply>>

\* chat(), lines 96-104: read the body, reject an empty message, connect
chat(w, data) ==
    /\ Receive(w, [kind |-> "chat", data |-> data])
    /\ IF user_message(data) = <<>>
       THEN /\ resp' = [resp EXCEPT ![w] = JsonObject([error |-> "Message is empty"], 400)]
            /\ UNCHANGED <<exc, acquired>>
            /\ close_db(w)
       ELSE \/ /\ get_db(w)
               /\ pc' = [pc EXCEPT ![w] = "chat_insert_user"]
               /\ UNCHANGED <<resp, exc>>
            \/ /\ Raise(w, "connect")
               /\ UNCHANGED acquired
    /\ UNCHANGED <<rows, seq, clock, exchanges, text, reply>>

\* mutant: the connection is in autocommit mode, each insert is durable at once
Insert_autocommit(w, role, content) ==
    LET row == [id |-> seq + 1, session_id |-> session_id(req[w].data), role |-> role,
                content |-> content, created_at |-> clock]
    IN  /\ seq' = seq + 1
        /\ txn' = txn
        /\ rows' = rows \cup {row}

\* mutant: created_at is the time of the statement, not of the transaction
Insert_statement_time(w, role, content) ==
    LET row == [id |-> seq + 1, session_id |-> session_id(req[w].data), role |-> role,
                content |-> content, created_at |-> clock]
    IN  /\ seq' = seq + 1
        /\ txn' = [txn EXCEPT ![w] =
                      [active |-> TRUE, ts |-> clock, pending |-> @.pending \cup {row}]]
        /\ rows' = rows

\* cur.execute('INSERT INTO chat_messages (session_id, role, content) ...'):
\* psycopg2 opens a transaction at the first statement of a connection
\* (autocommit is off); id is the next value of the sequence, created_at is
\* CURRENT_TIMESTAMP, the start time of the transaction.  The row stays
\* invisible to other connections until the commit.
Insert(w, role, content) ==
    LET ts == IF txn[w].active THEN txn[w].ts ELSE clock
        row == [id |-> seq + 1, session_id |-> session_id(req[w].data), role |-> role,
                content |-> content, created_at |-> ts]
    IN  /\ seq' = seq + 1
        /\ txn' = [txn EXCEPT ![w] =
                      [active |-> TRUE, ts |-> ts, pending |-> @.pending \cup {row}]]
        /\ rows' = rows

\* the statement fails: nothing is inserted; the sequence may have advanced
InsertFails(w, call) ==
    /\ \E used \in {0, 1} : seq' = seq + used
    /\ rows' = rows
    /\ Raise(w, call)

\* chat(), lines 108-111: save the user message
chat_insert_user(w) ==
    /\ Quiet
    /\ pc[w] = "chat_insert_user"
    /\ \/ /\ Insert(w, "user", user_message(req[w].data))
          /\ pc' = [pc EXCEPT ![w] = "chat_insert_assistant"]
          /\ UNCHANGED <<resp, exc, g, open>>
       \/ InsertFails(w, "insert_user")
    /\ UNCHANGED <<clock, req, acquired, exchanges, nchat, nread, text, reply>>

\* chat(), lines 114-120: compute the reply, save it
chat_insert_assistant(w) ==
    /\ Quiet
    /\ pc[w] = "chat_insert_assistant"
    /\ \/ /\ Insert(w, "assistant", get_fallback_response(user_message(req[w].data)))
          /\ pc' = [pc EXCEPT ![w] = "chat_commit"]
          /\ UNCHANGED <<resp, exc, g, open>>
       \/ InsertFails(w, "insert_assistant")
    /\ UNCHANGED <<clock, req, acquired, exchanges, nchat, nread, text, reply>>

\* db.commit(): the rows of the transaction become visible
Commit(w) == rows' = rows \cup txn[w].pending

\* chat(), lines 122-128: commit and answer
chat_commit(w) ==
    /\ Quiet
    /\ pc[w] = "chat_commit"
    /\ \/ /\ Commit(w)
          /\ resp' = [resp EXCEPT ![w] =
                JsonObject([response |-> get_fallback_response(user_message(req[w].data)),
                            session_id |-> session_id(req[w].data)], 200)]
          /\ exchanges' = [exchanges EXCEPT ![session_id(req[w].data)] = @ + 1]
          /\ close_db(w)
          /\ UNCHANGED exc
       \/ /\ Raise(w, "commit")
          /\ UNCHANGED <<rows, exchanges>>
    /\ UNCHANGED <<seq, clock, req, acquired, nchat, nread, text, reply>>

\* Every order of the rows R that ORDER BY created_at ASC allows: rows with
\* equal created_at come in an order the database chooses.
RECURSIVE OrderByCreatedAt(_)
OrderByCreatedAt(R) ==
    IF R = {} THEN {<<>>}
    ELSE LET first == {r \in R : \A q \in R : r.created_at <= q.created_at}
         IN  UNION {{<<r>> \o rest : rest \in OrderByCreatedAt(R \ {r})} : r \in first}

\* the selected columns of a row
Columns(r) == [role |-> r.role, content |-> r.content, created_at |-> r.created_at]

\* mutant: the WHERE clause is missing
Select_all_sessions(s) ==
    {[i \in 1..Len(o) |-> Columns(o[i])] : o \in OrderByCreatedAt(rows)}

\* SELECT role, content, created_at FROM chat_messages WHERE session_id = s
\* ORDER BY created_at ASC: the possible results of cur.fetchall()
Select(s) ==
    LET order == OrderByCreatedAt({r \in rows : r.session_id = s})
    IN  {[i \in 1..Len(o) |-> Columns(o[i])] : o \in order}

\* get_history(), lines 133-135: connect
get_history(w, s) ==
    /\ Receive(w, [kind |-> "history", session_id |-> s])
    /\ \/ /\ get_db(w)
          /\ pc' = [pc EXCEPT ![w] = "get_history_select"]
          /\ UNCHANGED <<resp, exc>>
       \/ /\ Raise(w, "connect")
          /\ UNCHANGED acquired
    /\ UNCHANGED <<rows, seq, clock, exchanges, text, reply>>

\* get_history(), lines 136-142: select and answer
get_history_select(w) ==
    /\ Quiet
    /\ pc[w] = "get_history_select"
    /\ \/ /\ \E messages \in Select(req[w].session_id) :
                resp' = [resp EXCEPT ![w] = JsonArray(messages)]
          /\ close_db(w)
          /\ UNCHANGED exc
       \/ Raise(w, "select")
    /\ UNCHANGED <<rows, seq, clock, req, acquired, exchanges, nchat, nread, text, reply>>

\* the response leaves the worker: the request and its context are gone
forget(w) ==
    /\ pc[w] = "done"
    /\ pc' = [pc EXCEPT ![w] = "idle"]
    /\ req' = [req EXCEPT ![w] = [kind |-> "none"]]
    /\ resp' = [resp EXCEPT ![w] = NoResponse]
    /\ exc' = [exc EXCEPT ![w] = "none"]
    /\ acquired' = [acquired EXCEPT ![w] = 0]
    /\ UNCHANGED <<rows, seq, clock, g, txn, open, exchanges, nchat, nread, text, reply>>

\* time passes on the database server
Tick ==
    /\ Quiet
    /\ clock < MaxClock
    /\ clock' = clock + 1
    /\ UNCHANGED <<rows, seq, pc, req, g, txn, open, acquired, resp, exc, exchanges,
                   nchat, nread, text, reply>>

Next ==
    \/ \E w \in Workers :
        \/ health_check(w)
        \/ \E data \in ChatBodies : chat(w, data)
        \/ \E s \in PathSessions : get_history(w, s)
        \/ chat_insert_user(w)
        \/ chat_insert_assistant(w)
        \/ chat_commit(w)
        \/ get_history_select(w)
        \/ forget(w)
    \/ Tick

Spec == Init /\ [][Next]_vars

----------------------------------------------------------------------------
(* The Responder alone: get_fallback_response applied to a text *)

Fragments ==
    { <<"E","y","e">>, w_guard, w_vision, w_cv, <<"A","I">>, w_framework, w_telegram,
      <<"B","o","t">>, w_general, w_shop, w_food, w_scraper, w_scraping, w_texno,
      w_data, <<"S","K","I","L","L","S">>, w_tech, <<" ">>, <<"x">> }

\* the texts made of at most n fragments
RECURSIVE Concats(_)
Concats(n) ==
    IF n = 0 THEN {<<>>}
    ELSE LET shorter == Concats(n - 1)
         IN  shorter \cup {t \o f : t \in shorter, f \in Fragments}

Texts == Concats(MaxParts)

NoReply == <<>>

InitResponder ==
    /\ InitServer
    /\ text \in Texts
    /\ reply = NoReply

Classify ==
    /\ reply = NoReply
    /\ reply' = get_fallback_response(text)
    /\ UNCHANGED <<text, serverVars>>

NextResponder == Classify

SpecResponder == InitResponder /\ [][NextResponder]_vars

----------------------------------------------------------------------------
(* Properties *)

\* worker w has answered the request req[w]
Done(w) == pc[w] = "done"

\* the message of a chat body is missing, empty or only whitespace
Blank(data) == "message" \notin DOMAIN data \/ strip(data.message) = <<>>

HasError(r) == r.kind = "object" /\ "error" \in DOMAIN r.body

\* the step in which the SELECT of w's transcript retrieval returns
SelectReturns(w) ==
    pc[w] = "get_history_select" /\ pc'[w] = "done" /\ exc'[w] = "none"

SessionRows(s) == {r \in rows : r.session_id = s}

----------------------------------------------------------------------------
(* C6 *)

\* the five categories of the Responder, in their fixed order
Trigger(i, t) ==
    CASE i = 1 -> Contains(t, w_eye) \/ Contains(t, w_guard) \/ Contains(t, w_vision)
                    \/ Contains(t, w_cv) \/ Contains(t, w_ai)
      [] i = 2 -> Contains(t, w_framework)
                    \/ (Contains(t, w_telegram) /\ Contains(t, w_bot) /\ Contains(t, w_general))
      [] i = 3 -> Contains(t, w_bot) \/ Contains(t, w_telegram) \/ Contains(t, w_shop)
                    \/ Contains(t, w_food)
      [] i = 4 -> Contains(t, w_scraper) \/ Contains(t, w_scraping) \/ Contains(t, w_texno)
                    \/ Contains(t, w_data)
      [] i = 5 -> Contains(t, w_skills) \/ Contains(t, w_tech)

CategoryReply(i) ==
    CASE i = 1 -> EyeGuardReply
      [] i = 2 -> FrameworkReply
      [] i = 3 -> BotsReply
      [] i = 4 -> ScraperReply
      [] i = 5 -> SkillsReply

\* C6: the reply is that of the first category, in the order EyeGuard, Bot
\* Framework, Telegram bots, Scraping, Skills, whose trigger matches the
\* case-folded text, and the default reply when none matches; the empty and
\* the whitespace-only texts get the default; a text with an eye/ai trigger
\* word and a skills trigger word gets the EyeGuard reply, not the Skills one.
C6_FirstCategoryWins ==
    reply # NoReply =>
        LET t == lower(text)
            matching == {i \in 1..5 : Trigger(i, t)}
        IN  /\ matching = {} => reply = DefaultReply
            /\ matching # {} =>
                  reply = CategoryReply(CHOOSE i \in matching : \A j \in matching : i <= j)
            /\ strip(text) = <<>> => reply = DefaultReply
            /\ Trigger(1, t) /\ Trigger(5, t) =>
                  reply = EyeGuardReply /\ reply # SkillsReply

C6_Witness ==
    /\ reply = EyeGuardReply
    /\ Contains(lower(text), w_ai)
    /\ Contains(lower(text), w_skills)

----------------------------------------------------------------------------
(* C2 *)

\* C2: a POST /api/chat whose message is missing, empty or only whitespace
\* is answered 400 with an error, at once and without touching the store: it
\* never holds a connection or an uncommitted row, and the persisted rows
\* change only in the commit of a request whose message is not blank.
C2_BlankMessageRejected ==
    [][ /\ \A w \in Workers :
              (req'[w].kind = "chat" /\ Blank(req'[w].data)) =>
                  /\ pc'[w] = "done"
                  /\ resp'[w].status = 400
                  /\ HasError(resp'[w])
                  /\ g'[w] = "none"
                  /\ txn'[w].pending = {}
        /\ rows' # rows =>
              \E w \in Workers :
                  /\ pc[w] = "chat_commit"
                  /\ ~Blank(req[w].data)
                  /\ rows' = rows \cup txn[w].pending
      ]_vars

C2_Witness ==
    \E w \in Workers :
        /\ Done(w)
        /\ req[w].kind = "chat"
        /\ "message" \in DOMAIN req[w].data
        /\ req[w].data.message # <<>>
        /\ Blank(req[w].data)
        /\ resp[w].status = 400
        /\ rows # {}

----------------------------------------------------------------------------
(* C3 *)

\* the session_id a chat body asks for: its own, or "anonymous"
EchoedSession(data) ==
    IF "session_id" \in DOMAIN data THEN data.session_id ELSE "anonymous"

GoodChatResponse(w) ==
    /\ resp[w].status = 200
    /\ resp[w].kind = "object"
    /\ DOMAIN resp[w].body = {"response", "session_id"}
    /\ resp[w].body.response # <<>>
    /\ \A i \in 1..Len(resp[w].body.response) : resp[w].body.response[i] # ""
    /\ resp[w].body.session_id = EchoedSession(req[w].data)

\* C3 as stated: every POST /api/chat whose message is non-empty after
\* trimming is answered 200 with a non-empty response and the session_id of
\* the request, or "anonymous" when the request has none.
C3_Original ==
    \A w \in Workers :
        (Done(w) /\ req[w].kind = "chat" /\ ~Blank(req[w].data)) => GoodChatResponse(w)

\* C3 amended: ... is answered 200 with a non-empty response and the echoed
\* session_id when no storage call of the request fails, and 500 when one does.
C3_Amended ==
    \A w \in Workers :
        (Done(w) /\ req[w].kind = "chat" /\ ~Blank(req[w].data)) =>
            IF exc[w] = "none" THEN GoodChatResponse(w) ELSE resp[w].status = 500

C3_Witness ==
    \E w \in Workers :
        /\ Done(w)
        /\ req[w].kind = "chat"
        /\ ~Blank(req[w].data)
        /\ "session_id" \notin DOMAIN req[w].data
        /\ req[w].data.message # strip(req[w].data.message)
        /\ exc[w] = "none"
        /\ resp[w].body.session_id = "anonymous"
        /\ resp[w].body.response = EyeGuardReply

----------------------------------------------------------------------------
(* C4, C8 *)

UserRows == {r \in rows : r.role = "user"}

AssistantRows == {r \in rows : r.role = "assistant"}

\* a is the assistant turn written with the user turn u
Answers(a, u) ==
    /\ a.role = "assistant"
    /\ u.role = "user"
    /\ a.session_id = u.session_id
    /\ a.id > u.id
    /\ a.created_at = u.created_at
    /\ a.content = get_fallback_response(u.content)

\* the step in which the insert of w's assistant turn fails
AssistantInsertFails(w) ==
    pc[w] = "chat_insert_assistant" /\ exc'[w] = "insert_assistant"

\* C4 as stated: when the insert of the assistant turn fails after the
\* insert of the user turn succeeded, the user turn remains persisted.
C4_Original ==
    [][\A w \in Workers :
          AssistantInsertFails(w) =>
              \E u \in txn[w].pending : u.role = "user" /\ u \in rows'
      ]_vars

\* C4 amended: the two inserts are one transaction, committed once after
\* the second: when the insert of the assistant turn fails, the user turn is
\* discarded with the connection and the persisted rows do not change; no
\* user turn is ever persisted without its assistant turn (the table starts
\* empty, and whenever it changes every user turn in it has one).
C4_Amended ==
    [][ /\ \A w \in Workers :
              AssistantInsertFails(w) =>
                  /\ rows' = rows
                  /\ txn'[w].pending = {}
                  /\ \A u \in txn[w].pending : u \notin rows'
        /\ rows' # rows => \A u \in UserRows' : \E a \in AssistantRows' : Answers(a, u)
      ]_vars

C4_Witness ==
    \E w \in Workers :
        /\ Done(w)
        /\ exc[w] = "insert_assistant"
        /\ resp[w].status = 500
        /\ SessionRows(EchoedSession(req[w].data)) = {}
        /\ seq > 0

\* C8 as stated: each persisted user turn is immediately followed in id
\* order by an assistant turn of its session (no other turn's id between
\* them), whose id and created_at are greater.
C8_Original ==
    \A u \in UserRows :
        \E a \in AssistantRows :
            /\ a.session_id = u.session_id
            /\ a.id > u.id
            /\ a.created_at > u.created_at
            /\ ~\E r \in rows : u.id < r.id /\ r.id < a.id

\* C8 as stated, without the order of created_at: the ids of a pair are
\* not adjacent either when two requests interleave their inserts
C8_AdjacentIds ==
    \A u \in UserRows :
        \E a \in AssistantRows :
            /\ a.session_id = u.session_id
            /\ a.id > u.id
            /\ ~\E r \in rows : u.id < r.id /\ r.id < a.id

\* C8 amended: the persisted turns come in pairs, under every interleaving:
\* they split into pairs of a user turn and the assistant turn that answers
\* it, of the same session, the assistant turn with the greater id and the
\* same created_at (the start of their transaction); ids are unique, and
\* turns of other requests may lie between the two ids of a pair.
C8_Amended ==
    /\ \A r, q \in rows : r.id = q.id => r = q
    /\ \A r \in rows : r.role \in {"user", "assistant"}
    /\ Cardinality(UserRows) = Cardinality(AssistantRows)
    /\ LET answers == {p \in UserRows \X AssistantRows : Answers(p[2], p[1])}
       IN  \E m \in [UserRows -> AssistantRows] :
              /\ \A u, v \in UserRows : m[u] = m[v] => u = v
              /\ \A u \in UserRows : <<u, m[u]>> \in answers

C8_Witness ==
    \E u, v \in UserRows :
        \E a \in AssistantRows :
            /\ Answers(a, u)
            /\ u.id < v.id
            /\ v.id < a.id
            /\ v.session_id = u.session_id

----------------------------------------------------------------------------
(* C1, C9, C10 *)

\* the rows R by created_at, rows of equal created_at by id
RECURSIVE ByCreatedAtThenId(_)
ByCreatedAtThenId(R) ==
    IF R = {} THEN <<>>
    ELSE LET r == CHOOSE x \in R : \A y \in R :
                      \/ x.created_at < y.created_at
                      \/ (x.created_at = y.created_at /\ x.id <= y.id)
         IN  <<r>> \o ByCreatedAtThenId(R \ {r})

Range(f) == {f[i] : i \in DOMAIN f}

\* the array holds the selected columns of exactly the rows R, each once
HoldsExactly(arr, R) ==
    /\ Len(arr) = Cardinality(R)
    /\ \A c \in Range(arr) \cup {Columns(r) : r \in R} :
          Cardinality({i \in DOMAIN arr : arr[i] = c})
              = Cardinality({r \in R : Columns(r) = c})

\* C1: after N successful chat exchanges on a session, the transcript of the
\* session has exactly 2N records, whose roles alternate user, assistant,
\* user, assistant, ...
C1_Alternating ==
    [][\A w \in Workers :
          SelectReturns(w) =>
              LET body == resp'[w].body
                  N == exchanges[req[w].session_id]
              IN  /\ resp'[w].status = 200
                  /\ Len(body) = 2 * N
                  /\ \A i \in 1..Len(body) :
                        body[i].role = IF i % 2 = 1 THEN "user" ELSE "assistant"
      ]_vars

\* C9: the transcript comes in ascending created_at order, turns of equal
\* created_at in ascending id order.
C9_TiesById ==
    [][\A w \in Workers :
          SelectReturns(w) =>
              LET sorted == ByCreatedAtThenId(SessionRows(req[w].session_id))
              IN  resp'[w].body = [i \in 1..Len(sorted) |-> Columns(sorted[i])]
      ]_vars

\* the step that ends w's transcript retrieval
HistoryEnds(w) ==
    \/ pc[w] = "get_history_select" /\ pc'[w] = "done"
    \/ pc[w] = "idle" /\ pc'[w] = "done" /\ req'[w].kind = "history"

\* C10 as stated: the retrieval returns exactly the committed turns of the
\* requested session, and an empty array with a success status when the
\* session has none.
C10_Original ==
    [][\A w \in Workers :
          HistoryEnds(w) =>
              /\ resp'[w].status = 200
              /\ resp'[w].kind = "array"
              /\ HoldsExactly(resp'[w].body, SessionRows(req'[w].session_id))
      ]_vars

\* C10 amended: when no storage call of the retrieval fails, it returns 200
\* with an array of exactly the committed turns of the requested session
\* (all of them, none of another session), in ascending created_at order,
\* the empty array when the session has none; when one fails it returns 500.
C10_Amended ==
    [][\A w \in Workers :
          HistoryEnds(w) =>
              IF exc'[w] = "none"
              THEN /\ resp'[w].status = 200
                   /\ resp'[w].kind = "array"
                   /\ HoldsExactly(resp'[w].body, SessionRows(req'[w].session_id))
                   /\ \A i, j \in DOMAIN resp'[w].body :
                         i <= j => resp'[w].body[i].created_at <= resp'[w].body[j].created_at
              ELSE resp'[w].status = 500
      ]_vars

\* a retrieval returned the turns of its session while another session has turns
C10_Witness ==
    \E w \in Workers :
        /\ Done(w)
        /\ req[w].kind = "history"
        /\ resp[w].status = 200
        /\ Len(resp[w].body) > 0
        /\ rows # SessionRows(req[w].session_id)

----------------------------------------------------------------------------
(* C5, C7 *)

\* C5: every request that ends in an error answers a JSON object with an
\* `error` field, with a 4xx status for a validation failure and a 5xx
\* status for a storage failure; no success response has an `error` field.
C5_ErrorsAreJson ==
    \A w \in Workers :
        Done(w) =>
            /\ exc[w] # "none" =>
                  (HasError(resp[w]) /\ resp[w].status \in 500..599)
            /\ (req[w].kind = "chat" /\ Blank(req[w].data)) =>
                  (HasError(resp[w]) /\ resp[w].status \in 400..499)
            /\ resp[w].status \in 200..299 => ~HasError(resp[w])

\* C7: a request acquires at most one connection and, however it ends,
\* the connection is closed when it ends: between requests a worker holds
\* no open connection and no connection in its request context.
C7_ConnectionReleased ==
    \A w \in Workers :
        /\ acquired[w] <= 1
        /\ open[w] <= 1
        /\ open[w] = (IF g[w] = "none" THEN 0 ELSE 1)
        /\ pc[w] \in {"idle", "done"} => (open[w] = 0 /\ g[w] = "none")
        /\ pc[w] \notin {"idle", "done"} => (open[w] = 1 /\ acquired[w] = 1)

\* a request that failed after it connected has ended
C7_Witness ==
    \E w \in Workers :
        /\ Done(w)
        /\ acquired[w] = 1
        /\ exc[w] \in {"insert_user", "insert_assistant", "commit", "select"}
        /\ open[w] = 0

====
